---- MODULE Spec2Model ----
(***************************************************************************)
(* Model of odoh.go: the DNS-over-HTTPS gateway's request pipeline.        *)
(*                                                                         *)
(*   parseRequest -> createQuery -> resolve (startConnection, deadlines,   *)
(*   WriteMsg, ReadMsg) -> Pack -> HTTP response                           *)
(*                                                                         *)
(* Strings that the code manipulates (domain names, the `dns` parameter)   *)
(* are sequences of character codes; wire messages are sequences of octets.*)
(* Record type names (dns.Type.String) are TLA+ strings.                   *)
(***************************************************************************)
EXTENDS Integers, Sequences, FiniteSets, TLC

(***************************************************************************)
(* Character codes used below.                                             *)
(*   '.' = 46   '\' = 92   '0'..'9' = 48..57   LF = 10   CR = 13   '=' = 61*)
(***************************************************************************)

\* F applied to the value of v, computed once (a definition of LET is
\* computed again at each use).
Let(v, F(_)) ==
    CHOOSE y \in { F(x) : x \in {v} } : TRUE

RECURSIVE FlattenFrom(_, _)
FlattenFrom(ss, i) ==
    IF i > Len(ss) THEN <<>> ELSE ss[i] \o FlattenFrom(ss, i + 1)

\* Concatenation of a sequence of sequences.
Flatten(ss) ==
    Let(ss, LAMBDA v : FlattenFrom(v, 1))

\* Big-endian 16-bit and 32-bit fields of the wire format.
PackUint16(n) ==
    << (n \div 256) % 256, n % 256 >>

PackUint32(n) ==
    << (n \div 16777216) % 256, (n \div 65536) % 256, (n \div 256) % 256, n % 256 >>

(***************************************************************************)
(* encoding/base64, RawURLEncoding: the URL-safe alphabet, no padding.     *)
(***************************************************************************)

\* The character of a 6-bit value: A-Z a-z 0-9 - _
B64Char(v) ==
    IF v < 26 THEN 65 + v
    ELSE IF v < 52 THEN 97 + (v - 26)
    ELSE IF v < 62 THEN 48 + (v - 52)
    ELSE IF v = 62 THEN 45
    ELSE 95

\* The 6-bit value of a character in the standard alphabet (+ and / for 62
\* and 63), the alphabet RawStdEncoding would read.
B64ValStd(c) ==
    IF c \in 65..90 THEN c - 65
    ELSE IF c \in 97..122 THEN c - 97 + 26
    ELSE IF c \in 48..57 THEN c - 48 + 52
    ELSE IF c = 43 THEN 62
    ELSE IF c = 47 THEN 63
    ELSE -1

\* The 6-bit value of a character, or -1 when it is not in the alphabet.
B64Val(c) ==
    IF c \in 65..90 THEN c - 65
    ELSE IF c \in 97..122 THEN c - 97 + 26
    ELSE IF c \in 48..57 THEN c - 48 + 52
    ELSE IF c = 45 THEN 62
    ELSE IF c = 95 THEN 63
    ELSE -1

\* The octet at position k, 0 past the end.
OctetAt(b, k) ==
    IF k <= Len(b) THEN b[k] ELSE 0

\* The j-th 6-bit group of the octets b: every 3 octets give 4 groups.
Sextet(b, j) ==
    LET g == 3 * ((j - 1) \div 4)
        k == (j - 1) % 4
    IN  CASE k = 0 -> OctetAt(b, g + 1) \div 4
          [] k = 1 -> (OctetAt(b, g + 1) % 4) * 16 + OctetAt(b, g + 2) \div 16
          [] k = 2 -> (OctetAt(b, g + 2) % 16) * 4 + OctetAt(b, g + 3) \div 64
          [] OTHER -> OctetAt(b, g + 3) % 64

\* base64.RawURLEncoding.EncodeToString: 3 octets -> 4 characters, a final
\* group of 1 or 2 octets -> 2 or 3 characters, no '='.
B64Encode(b) ==
    Let(b, LAMBDA v : [j \in 1..((Len(v) * 4 + 2) \div 3) |-> B64Char(Sextet(v, j))])

\* The j-th octet of the 6-bit values v: every 4 values give 3 octets. The
\* unused low bits of a final group of 2 or 3 values are dropped (the
\* decoder is not in strict mode).
Quantum(v, j) ==
    LET g == 4 * ((j - 1) \div 3)
        k == (j - 1) % 3
    IN  CASE k = 0 -> v[g + 1] * 4 + v[g + 2] \div 16
          [] k = 1 -> (v[g + 2] % 16) * 16 + v[g + 3] \div 4
          [] OTHER -> (v[g + 3] % 4) * 64 + v[g + 4]

\* The 6-bit values of a string, '\r' and '\n' skipped wherever they stand.
B64Vals(s) ==
    Let(SelectSeq(s, LAMBDA c : c \notin {10, 13}),
        LAMBDA t : [i \in 1..Len(t) |-> B64Val(t[i])])

\* base64.RawURLEncoding.DecodeString: [ok, bytes]. A character outside
\* the alphabet (including the padding '=') or a final group of one
\* character is a CorruptInputError.
B64Decode(s) ==
    Let(B64Vals(s), LAMBDA v :
        IF (\E i \in 1..Len(v) : v[i] = -1) \/ Len(v) % 4 = 1
        THEN [ok |-> FALSE, bytes |-> <<>>]
        ELSE [ok |-> TRUE,
              bytes |-> [j \in 1..((Len(v) * 3) \div 4) |-> Quantum(v, j)]])

(***************************************************************************)
(* github.com/miekg/dns: domain names in presentation and in wire form.    *)
(***************************************************************************)

IsDigit(c) == c \in 48..57

RECURSIVE TrailingBackslashes(_, _)
\* Number of consecutive '\' ending at position i of s.
TrailingBackslashes(s, i) ==
    IF i >= 1 /\ s[i] = 92 THEN 1 + TrailingBackslashes(s, i - 1) ELSE 0

\* dns.IsFqdn: the name ends with a dot that is not escaped.
IsFqdn(s) ==
    /\ Len(s) > 0
    /\ s[Len(s)] = 46
    /\ TrailingBackslashes(s, Len(s) - 1) % 2 = 0

\* dns.Fqdn: the name with the trailing dot added when it has none.
Fqdn(s) ==
    IF IsFqdn(s) THEN s ELSE s \o <<46>>

RECURSIVE SplitLabels(_, _, _, _)
\* The labels (octet sequences) of a fully qualified presentation name, read
\* from position i: "\DDD" is the octet DDD, "\c" the character c, an
\* unescaped dot ends a label. [ok, labels]; an empty label is an error.
SplitLabels(s, i, cur, acc) ==
    IF i > Len(s) THEN [ok |-> cur = <<>>, labels |-> acc]
    ELSE IF s[i] = 92 THEN
        IF i + 3 <= Len(s) /\ IsDigit(s[i + 1]) /\ IsDigit(s[i + 2]) /\ IsDigit(s[i + 3])
        THEN SplitLabels(s, i + 4,
                 Append(cur, ((s[i + 1] - 48) * 100 + (s[i + 2] - 48) * 10
                              + (s[i + 3] - 48)) % 256),
                 acc)
        ELSE IF i + 1 <= Len(s)
        THEN SplitLabels(s, i + 2, Append(cur, s[i + 1]), acc)
        ELSE [ok |-> FALSE, labels |-> <<>>]
    ELSE IF s[i] = 46 THEN
        Let(cur, LAMBDA l :
            IF l = <<>> THEN [ok |-> FALSE, labels |-> <<>>]
            ELSE SplitLabels(s, i + 1, <<>>, Append(acc, l)))
    ELSE SplitLabels(s, i + 1, Append(cur, s[i]), acc)

\* The labels in wire form: each one after its length, then the root.
LabelsWire(labels) ==
    Flatten([i \in 1..Len(labels) |-> <<Len(labels[i])>> \o labels[i]]) \o <<0>>

\* packDomainName without compression: [ok, bytes]. The empty string packs
\* to nothing, a name that is not fully qualified is ErrFqdn, the root is
\* one zero octet, a label is at most 63 octets and a name at most 255.
PackDomainName(s) ==
    IF s = <<>> THEN [ok |-> TRUE, bytes |-> <<>>]
    ELSE IF ~IsFqdn(s) THEN [ok |-> FALSE, bytes |-> <<>>]
    ELSE IF s = <<46>> THEN [ok |-> TRUE, bytes |-> <<0>>]
    ELSE Let(SplitLabels(s, 1, <<>>, <<>>), LAMBDA sp :
            IF ~sp.ok \/ (\E i \in 1..Len(sp.labels) : Len(sp.labels[i]) > 63)
            THEN [ok |-> FALSE, bytes |-> <<>>]
            ELSE Let(LabelsWire(sp.labels), LAMBDA wire :
                    IF Len(wire) > 255
                    THEN [ok |-> FALSE, bytes |-> <<>>]
                    ELSE [ok |-> TRUE, bytes |-> wire]))

\* Presentation form of one label octet as UnpackDomainName writes it.
EscapeOctet(b) ==
    IF b \in {34, 40, 41, 46, 59, 64, 92, 32} THEN <<92, b>>
    ELSE IF b < 32 \/ b > 126
    THEN <<92, 48 + b \div 100, 48 + ((b \div 10) % 10), 48 + (b % 10)>>
    ELSE <<b>>

\* The octets msg[from..to] of a label in presentation form.
EscapeLabel(msg, from, to) ==
    Flatten([i \in 1..(to - from + 1) |-> EscapeOctet(msg[from + i - 1])])

RECURSIVE UnpackLabels(_, _, _, _)
\* UnpackDomainName from the 1-based position off: [ok, name, off], off being
\* the position after the name. A length octet 1..63 is followed by that
\* many octets; 0 ends the name; 11xxxxxx starts a compression pointer (at
\* most 10 are followed); 01 and 10 are reserved.
UnpackLabels(msg, off, name, ptr) ==
    IF off > Len(msg) THEN [ok |-> FALSE, name |-> <<>>, off |-> off]
    ELSE Let(msg[off], LAMBDA c :
        IF c \div 64 = 0 THEN
            IF c = 0
            THEN Let(name, LAMBDA n :
                    [ok |-> TRUE, name |-> IF n = <<>> THEN <<46>> ELSE n, off |-> off + 1])
            ELSE IF off + c > Len(msg)
            THEN [ok |-> FALSE, name |-> <<>>, off |-> off]
            ELSE UnpackLabels(msg, off + 1 + c,
                     name \o EscapeLabel(msg, off + 1, off + c) \o <<46>>, ptr)
        ELSE IF c \div 64 = 3 THEN
            IF off + 1 > Len(msg) \/ ptr >= 10
            THEN [ok |-> FALSE, name |-> <<>>, off |-> off]
            ELSE Let(UnpackLabels(msg, (c % 64) * 256 + msg[off + 1] + 1, name, ptr + 1),
                     LAMBDA r : [r EXCEPT !.off = off + 2])
        ELSE [ok |-> FALSE, name |-> <<>>, off |-> off])

UnpackDomainName(msg, off) ==
    UnpackLabels(msg, off, <<>>, 0)

(***************************************************************************)
(* github.com/miekg/dns: messages. A message is a record                   *)
(*   [Id, Response, Opcode, RecursionDesired, RecursionAvailable, Rcode,   *)
(*    Question, Answer]                                                    *)
(* a question [Name, Qtype, Qclass] and a resource record                  *)
(*   [Name, Rrtype, Class, Ttl, Rdata] with Rdata the raw octets.          *)
(* The authority and additional sections are empty in every message of the *)
(* model.                                                                  *)
(***************************************************************************)

\* dns.Type.String: the mnemonic of TypeToString, TYPEnnn for the others.
TypeString(t) ==
    CASE t = 0 -> "None"
      [] t = 1 -> "A"
      [] t = 2 -> "NS"
      [] t = 5 -> "CNAME"
      [] t = 15 -> "MX"
      [] t = 16 -> "TXT"
      [] t = 28 -> "AAAA"
      [] t = 255 -> "ANY"
      [] OTHER -> "TYPE" \o ToString(t)

\* The second 16-bit word of the header: QR, Opcode, RD, RA and Rcode (the
\* other flag bits are 0 in the messages of the model).
HeaderBits(m) ==
    (IF m.Response THEN 32768 ELSE 0) + (m.Opcode % 16) * 2048
    + (IF m.RecursionDesired THEN 256 ELSE 0)
    + (IF m.RecursionAvailable THEN 128 ELSE 0) + (m.Rcode % 16)

PackQuestion(q) ==
    Let(PackDomainName(q.Name), LAMBDA n :
        [ok |-> n.ok,
         bytes |-> n.bytes \o PackUint16(q.Qtype) \o PackUint16(q.Qclass)])

PackRR(rr) ==
    Let(PackDomainName(rr.Name), LAMBDA n :
        [ok |-> n.ok /\ Len(rr.Name) > 0,
         bytes |-> n.bytes \o PackUint16(rr.Rrtype) \o PackUint16(rr.Class)
                   \o PackUint32(rr.Ttl) \o PackUint16(Len(rr.Rdata)) \o rr.Rdata])

\* The message m with its sections packed as qs and rs.
PackSections(m, qs, rs) ==
    IF (\E i \in 1..Len(qs) : ~qs[i].ok) \/ (\E i \in 1..Len(rs) : ~rs[i].ok)
    THEN [ok |-> FALSE, bytes |-> <<>>]
    ELSE [ok |-> TRUE,
          bytes |-> PackUint16(m.Id) \o PackUint16(HeaderBits(m))
                    \o PackUint16(Len(m.Question)) \o PackUint16(Len(m.Answer))
                    \o PackUint16(0) \o PackUint16(0)
                    \o Flatten([i \in 1..Len(qs) |-> qs[i].bytes])
                    \o Flatten([i \in 1..Len(rs) |-> rs[i].bytes])]

\* (*Msg).Pack, no compression: [ok, bytes]. The section counts are the
\* lengths of the sections.
Pack(m) ==
    Let(m, LAMBDA v :
        Let(<< [i \in 1..Len(v.Question) |-> PackQuestion(v.Question[i])],
               [i \in 1..Len(v.Answer) |-> PackRR(v.Answer[i])] >>,
            LAMBDA p : PackSections(v, p[1], p[2])))

\* The 16-bit field at the 1-based position off.
Uint16At(msg, off) ==
    msg[off] * 256 + msg[off + 1]

\* unpackQuestion: [ok, q, off]. A message that ends right after the name,
\* or right after the type, still yields a question (the missing fields are
\* zero); a field cut in the middle is an error.
UnpackQuestion(msg, off) ==
    Let(UnpackDomainName(msg, off), LAMBDA n :
        IF ~n.ok
        THEN [ok |-> FALSE, q |-> [Name |-> <<>>, Qtype |-> 0, Qclass |-> 0], off |-> off]
        ELSE IF n.off = Len(msg) + 1
        THEN [ok |-> TRUE, q |-> [Name |-> n.name, Qtype |-> 0, Qclass |-> 0],
              off |-> n.off]
        ELSE IF n.off + 1 > Len(msg)
        THEN [ok |-> FALSE, q |-> [Name |-> <<>>, Qtype |-> 0, Qclass |-> 0], off |-> off]
        ELSE IF n.off + 2 = Len(msg) + 1
        THEN [ok |-> TRUE,
              q |-> [Name |-> n.name, Qtype |-> Uint16At(msg, n.off), Qclass |-> 0],
              off |-> n.off + 2]
        ELSE IF n.off + 3 > Len(msg)
        THEN [ok |-> FALSE, q |-> [Name |-> <<>>, Qtype |-> 0, Qclass |-> 0], off |-> off]
        ELSE [ok |-> TRUE,
              q |-> [Name |-> n.name,
                     Qtype |-> Uint16At(msg, n.off),
                     Qclass |-> Uint16At(msg, n.off + 2)],
              off |-> n.off + 4])

RECURSIVE UnpackQuestions(_, _, _, _)
\* The question loop of (*Msg).unpack: [ok, qs, off]; it stops early when
\* the position no longer advances.
UnpackQuestions(msg, off, count, qs) ==
    IF count = 0 THEN [ok |-> TRUE, qs |-> qs, off |-> off]
    ELSE Let(UnpackQuestion(msg, off), LAMBDA r :
            IF ~r.ok THEN [ok |-> FALSE, qs |-> <<>>, off |-> off]
            ELSE IF r.off = off THEN [ok |-> TRUE, qs |-> qs, off |-> off]
            ELSE UnpackQuestions(msg, r.off, count - 1, Append(qs, r.q)))

\* UnpackRR with the rdata kept as octets: [ok, rr, off].
UnpackRR(msg, off) ==
    IF off = Len(msg) + 1
    THEN [ok |-> TRUE, rr |-> [Name |-> <<>>], off |-> off]
    ELSE Let(UnpackDomainName(msg, off), LAMBDA n :
        IF ~n.ok \/ n.off + 9 > Len(msg)
        THEN [ok |-> FALSE, rr |-> [Name |-> <<>>], off |-> off]
        ELSE IF n.off + 9 + Uint16At(msg, n.off + 8) > Len(msg)
        THEN [ok |-> FALSE, rr |-> [Name |-> <<>>], off |-> off]
        ELSE [ok |-> TRUE,
              rr |-> [Name |-> n.name,
                      Rrtype |-> Uint16At(msg, n.off),
                      Class |-> Uint16At(msg, n.off + 2),
                      Ttl |-> Uint16At(msg, n.off + 4) * 65536 + Uint16At(msg, n.off + 6),
                      Rdata |-> SubSeq(msg, n.off + 10,
                                       n.off + 9 + Uint16At(msg, n.off + 8))],
              off |-> n.off + 10 + Uint16At(msg, n.off + 8)])

RECURSIVE UnpackRRslice(_, _, _, _)
\* unpackRRslice: [ok, rrs, off]; it stops early at the end of the message.
UnpackRRslice(msg, off, count, rrs) ==
    IF count = 0 THEN [ok |-> TRUE, rrs |-> rrs, off |-> off]
    ELSE Let(UnpackRR(msg, off), LAMBDA r :
            IF ~r.ok THEN [ok |-> FALSE, rrs |-> rrs, off |-> Len(msg) + 1]
            ELSE IF r.off = off THEN [ok |-> TRUE, rrs |-> rrs, off |-> off]
            ELSE UnpackRRslice(msg, r.off, count - 1, Append(rrs, r.rr)))

\* The header of a message of at least 12 octets, with empty sections.
UnpackMsgHdr(b) ==
    [Id |-> Uint16At(b, 1),
     Response |-> b[3] \div 128 = 1,
     Opcode |-> (b[3] \div 8) % 16,
     RecursionDesired |-> b[3] % 2 = 1,
     RecursionAvailable |-> b[4] \div 128 = 1,
     Rcode |-> b[4] % 16,
     Question |-> <<>>,
     Answer |-> <<>>]

\* The message of a failed Unpack (never looked at).
ZeroMsg ==
    [Id |-> 0, Response |-> FALSE, Opcode |-> 0, RecursionDesired |-> FALSE,
     RecursionAvailable |-> FALSE, Rcode |-> 0, Question |-> <<>>, Answer |-> <<>>]

\* (*Msg).Unpack: [ok, msg]. Fewer than 12 octets cannot hold the header. A
\* message that is only a header unpacks to empty sections whatever its
\* counts say. Octets after the last section are ignored.
Unpack(b) ==
    Let(b, LAMBDA v :
        IF Len(v) < 12 THEN [ok |-> FALSE, msg |-> ZeroMsg]
        ELSE IF Len(v) = 12 THEN [ok |-> TRUE, msg |-> UnpackMsgHdr(v)]
        ELSE Let(UnpackQuestions(v, 13, Uint16At(v, 5), <<>>), LAMBDA qs :
                IF ~qs.ok THEN [ok |-> FALSE, msg |-> ZeroMsg]
                ELSE Let(UnpackRRslice(v, qs.off, Uint16At(v, 7), <<>>), LAMBDA rs :
                        IF ~rs.ok THEN [ok |-> FALSE, msg |-> ZeroMsg]
                        ELSE [ok |-> TRUE,
                              msg |-> [UnpackMsgHdr(v) EXCEPT !.Question = qs.qs,
                                                              !.Answer = rs.rrs]])))

(***************************************************************************)
(* odoh.go: the request decoder and the query synthesizer.                 *)
(*                                                                         *)
(* An HTTP request is a record [Method, ContentType, Dns, Body, ReadErr,   *)
(* Src]: Dns is the value of the `dns` query parameter (empty when the     *)
(* parameter is absent), Body the request body, ReadErr whether reading    *)
(* the body fails. Src is not part of the request: it remembers the        *)
(* message a request was built from (NoMsg otherwise).                     *)
(* The decoders return [n, t, id, err], err standing for err != nil.       *)
(***************************************************************************)

NoMsg == [none |-> TRUE]

\* The values every failing return of the decoders carries: "", "", 0.
DecodeFailed == [n |-> <<>>, t |-> "", id |-> 0, err |-> TRUE]

\* The return of lines 68 and 90, `return "", "", uint16(0), err`: the err in
\* scope there is the one of the decode (line 58) or of the body read
\* (line 79), which is nil at that point; the err of Unpack is scoped to
\* the if statement before.
QuestionCountReturn == [n |-> <<>>, t |-> "", id |-> 0, err |-> FALSE]

\* A return that would take the type string from the question's class.
QuestionOfClass(msg) ==
    [n |-> msg.Question[1].Name,
     t |-> TypeString(msg.Question[1].Qclass),
     id |-> msg.Id,
     err |-> FALSE]

\* The successful return of lines 71 and 97.
QuestionOf(msg) ==
    [n |-> msg.Question[1].Name,
     t |-> TypeString(msg.Question[1].Qtype),
     id |-> msg.Id,
     err |-> FALSE]

parseRequestFromGET(r) ==
    IF r.Dns = <<>> THEN DecodeFailed
    ELSE Let(B64Decode(r.Dns), LAMBDA decoded :
            IF ~decoded.ok THEN DecodeFailed
            ELSE Let(Unpack(decoded.bytes), LAMBDA u :
                    IF ~u.ok THEN DecodeFailed
                    ELSE IF Len(u.msg.Question) # 1 THEN QuestionCountReturn
                    ELSE QuestionOf(u.msg)))

\* A POST decoder that would not look at the content type.
parseRequestFromPOSTAnyType(r) ==
    IF r.ReadErr THEN DecodeFailed
    ELSE Let(Unpack(r.Body), LAMBDA u :
            IF ~u.ok THEN DecodeFailed
            ELSE IF Len(u.msg.Question) # 1 THEN QuestionCountReturn
            ELSE QuestionOf(u.msg))

parseRequestFromPOST(r) ==
    IF r.ContentType # "application/dns-message" THEN DecodeFailed
    ELSE IF r.ReadErr THEN DecodeFailed
    ELSE Let(Unpack(r.Body), LAMBDA u :
            IF ~u.ok THEN DecodeFailed
            ELSE IF Len(u.msg.Question) # 1 THEN QuestionCountReturn
            ELSE QuestionOf(u.msg))

parseRequest(r) ==
    CASE r.Method = "GET" -> parseRequestFromGET(r)
      [] r.Method = "POST" -> parseRequestFromPOST(r)
      [] OTHER -> DecodeFailed

\* A synthesizer that would take the name as given, without dns.Fqdn.
createQueryRawName(n, t, id) ==
    [Id |-> id,
     Response |-> FALSE,
     Opcode |-> 0,
     RecursionDesired |-> TRUE,
     RecursionAvailable |-> FALSE,
     Rcode |-> 0,
     Question |-> << [Name |-> n,
                      Qtype |-> IF t = "A" THEN 1 ELSE 28,
                      Qclass |-> 1] >>,
     Answer |-> <<>>]

\* A synthesizer that would pass the MX type through.
createQueryAsAsked(n, t, id) ==
    [Id |-> id,
     Response |-> FALSE,
     Opcode |-> 0,
     RecursionDesired |-> TRUE,
     RecursionAvailable |-> FALSE,
     Rcode |-> 0,
     Question |-> << [Name |-> Fqdn(n),
                      Qtype |-> IF t = "A" THEN 1 ELSE IF t = "MX" THEN 15 ELSE 28,
                      Qclass |-> 1] >>,
     Answer |-> <<>>]

\* createQuery(n, t), with the value dns.Id() returns as a parameter.
createQuery(n, t, id) ==
    [Id |-> id,
     Response |-> FALSE,
     Opcode |-> 0,
     RecursionDesired |-> TRUE,
     RecursionAvailable |-> FALSE,
     Rcode |-> 0,
     Question |-> << [Name |-> Fqdn(n),
                      Qtype |-> IF t = "A" THEN 1 ELSE 28,
                      Qclass |-> 1] >>,
     Answer |-> <<>>]

(***************************************************************************)
(* net/http: what the handler writes.                                      *)
(***************************************************************************)

\* Nothing written yet.
NoResponse == [status |-> 0, ctype |-> "", body |-> <<>>]

\* "Bad Request\n" and "Internal Server Error\n".
StatusLine(code) ==
    IF code = 400
    THEN <<66, 97, 100, 32, 82, 101, 113, 117, 101, 115, 116, 10>>
    ELSE <<73, 110, 116, 101, 114, 110, 97, 108, 32, 83, 101, 114, 118, 101, 114,
           32, 69, 114, 114, 111, 114, 10>>

\* An error written with w.WriteHeader(code) alone: a status and no body.
HttpErrorNoBody(code) ==
    [status |-> code, ctype |-> "", body |-> <<>>]

\* http.Error(w, http.StatusText(code), code): a text/plain response whose
\* body is the status text and a newline.
HttpError(code) ==
    [status |-> code, ctype |-> "text/plain; charset=utf-8", body |-> StatusLine(code)]

\* An answer written without line 174: net/http would sniff the type.
HttpAnswerUntyped(packed) ==
    [status |-> 200, ctype |-> "application/octet-stream", body |-> packed]

\* Lines 174-175: the content type, then the body with the implicit 200.
HttpAnswer(packed) ==
    [status |-> 200, ctype |-> "application/dns-message", body |-> packed]

(***************************************************************************)
(* Bounds and inputs.                                                      *)
(***************************************************************************)

\* Number of requests the one server value handles, concurrently.
NumReq == 2

\* dns.Id() returns one of 1..MaxQueryId.
MaxQueryId == 2

Reqs == 1..NumReq

QueryIds == 1..MaxQueryId

\* An inbound query message.
InMsg(id, qs) ==
    [Id |-> id, Response |-> FALSE, Opcode |-> 0, RecursionDesired |-> TRUE,
     RecursionAvailable |-> FALSE, Rcode |-> 0, Question |-> qs, Answer |-> <<>>]

InQuestion(n, t) == [Name |-> n, Qtype |-> t, Qclass |-> 1]

\* ".", "a.", "ab.", "a.b." and "a\.b." (one label holding a dot).
InNames ==
    { <<46>>, <<97, 46>>, <<97, 98, 46>>, <<97, 46, 98, 46>>, <<97, 92, 46, 98, 46>> }

\* A, AAAA, MX, TXT and a type without a mnemonic.
InTypes == {1, 28, 15, 16, 65280}

InIds == {1, 65535}

OneQuestionMsgs ==
    { InMsg(i, <<InQuestion(n, t)>>) : i \in InIds, n \in InNames, t \in InTypes }

OtherCountMsgs ==
    { InMsg(i, <<>>) : i \in InIds }
    \cup { InMsg(1, <<InQuestion(<<97, 46>>, 1), InQuestion(<<98, 46>>, 28)>>),
           InMsg(1, <<InQuestion(<<97, 46>>, 1), InQuestion(<<97, 46>>, 1),
                      InQuestion(<<97, 46>>, 1)>>) }

InMsgs == OneQuestionMsgs \cup OtherCountMsgs

Wire(m) == Pack(m).bytes

GETReq(dns, src) ==
    [Method |-> "GET", ContentType |-> "", Dns |-> dns, Body |-> <<>>,
     ReadErr |-> FALSE, Src |-> src]

POSTReq(ctype, body, src) ==
    [Method |-> "POST", ContentType |-> ctype, Dns |-> <<>>, Body |-> body,
     ReadErr |-> FALSE, Src |-> src]

\* The query A? a. with id 1, the message of the odd requests below.
SampleMsg == InMsg(1, <<InQuestion(<<97, 46>>, 1)>>)

\* Requests that are not the plain encoding of a message of InMsgs.
OddRequests ==
    { \* no `dns` parameter, or an empty one
      GETReq(<<>>, NoMsg),
      \* dns=not-base64!!
      GETReq(<<110, 111, 116, 45, 98, 97, 115, 101, 54, 52, 33, 33>>, NoMsg),
      \* a padded encoding, and one with a final group of one character
      GETReq(B64Encode(Wire(SampleMsg)) \o <<61>>, NoMsg),
      GETReq(B64Encode(Wire(SampleMsg)) \o <<65, 65, 65>>, NoMsg),
      \* a line feed inside an otherwise plain encoding
      GETReq(<<10>> \o B64Encode(Wire(SampleMsg)), NoMsg),
      \* fewer octets than a header; a question cut inside its type
      GETReq(B64Encode(SubSeq(Wire(SampleMsg), 1, 11)), NoMsg),
      GETReq(B64Encode(SubSeq(Wire(SampleMsg), 1, 16)), NoMsg),
      POSTReq("application/dns-message", SubSeq(Wire(SampleMsg), 1, 16), NoMsg),
      \* a question cut right after its name
      POSTReq("application/dns-message", SubSeq(Wire(SampleMsg), 1, 15), NoMsg),
      \* a header announcing one question and nothing after it
      POSTReq("application/dns-message", SubSeq(Wire(SampleMsg), 1, 12), NoMsg),
      GETReq(B64Encode(SubSeq(Wire(SampleMsg), 1, 12)), NoMsg),
      \* an empty body
      POSTReq("application/dns-message", <<>>, NoMsg),
      \* other content types, with a valid body
      POSTReq("", Wire(SampleMsg), NoMsg),
      POSTReq("text/plain", Wire(SampleMsg), NoMsg),
      POSTReq("application/dns-message; charset=utf-8", Wire(SampleMsg), NoMsg),
      \* a body that cannot be read
      [POSTReq("application/dns-message", Wire(SampleMsg), NoMsg) EXCEPT !.ReadErr = TRUE],
      \* other methods, with everything a GET and a POST need
      [POSTReq("application/dns-message", Wire(SampleMsg), NoMsg) EXCEPT !.Method = "PUT"],
      [GETReq(B64Encode(Wire(SampleMsg)), NoMsg) EXCEPT !.Method = "HEAD"] }

\* The inputs of the one-request specification.
AllRequests ==
    { GETReq(B64Encode(Wire(m)), m) : m \in InMsgs }
    \cup { POSTReq("application/dns-message", Wire(m), m) : m \in InMsgs }
    \cup OddRequests

\* The inputs of the concurrent specification.
FewRequests ==
    { GETReq(B64Encode(Wire(SampleMsg)), SampleMsg),
      POSTReq("application/dns-message",
              Wire(InMsg(65535, <<InQuestion(<<98, 46>>, 28)>>)),
              InMsg(65535, <<InQuestion(<<98, 46>>, 28)>>)) }

(***************************************************************************)
(* time: a time.Duration and the reading of a clock are counts of          *)
(* nanoseconds in an int64. They are kept here as sequences of base-1000   *)
(* digits, lowest first, without leading zeros (<<>> is 0), since the      *)
(* values exceed the integers of the model checker. The products below     *)
(* stay under 2^63, so the int64 arithmetic of the program does not wrap.  *)
(***************************************************************************)

RECURSIVE BigOf(_)
\* The digits of a small natural number.
BigOf(n) ==
    IF n = 0 THEN <<>> ELSE <<n % 1000>> \o BigOf(n \div 1000)

Digit(a, i) ==
    IF i <= Len(a) THEN a[i] ELSE 0

RECURSIVE BigTrim(_)
BigTrim(a) ==
    IF a # <<>> /\ a[Len(a)] = 0 THEN BigTrim(SubSeq(a, 1, Len(a) - 1)) ELSE a

RECURSIVE AddFrom(_, _, _, _)
AddFrom(a, b, i, carry) ==
    IF i > Len(a) /\ i > Len(b)
    THEN IF carry = 0 THEN <<>> ELSE <<carry>>
    ELSE <<(Digit(a, i) + Digit(b, i) + carry) % 1000>>
         \o AddFrom(a, b, i + 1, (Digit(a, i) + Digit(b, i) + carry) \div 1000)

\* a + b
BigAdd(a, b) == AddFrom(a, b, 1, 0)

RECURSIVE SubFrom(_, _, _, _)
SubFrom(a, b, i, borrow) ==
    IF i > Len(a) THEN <<>>
    ELSE <<(Digit(a, i) - Digit(b, i) - borrow + 1000) % 1000>>
         \o SubFrom(a, b, i + 1, IF Digit(a, i) - Digit(b, i) - borrow < 0 THEN 1 ELSE 0)

\* a - b, for a >= b
BigSub(a, b) == BigTrim(SubFrom(a, b, 1, 0))

RECURSIVE LessFrom(_, _, _)
LessFrom(a, b, i) ==
    IF i = 0 THEN FALSE
    ELSE IF a[i] # b[i] THEN a[i] < b[i]
    ELSE LessFrom(a, b, i - 1)

\* a < b
BigLess(a, b) ==
    IF Len(a) # Len(b) THEN Len(a) < Len(b) ELSE LessFrom(a, b, Len(a))

\* a <= b
BigLeq(a, b) == ~BigLess(b, a)

RECURSIVE ScaleFrom(_, _, _, _)
ScaleFrom(a, k, i, carry) ==
    IF i > Len(a)
    THEN BigOf(carry)
    ELSE <<(a[i] * k + carry) % 1000>> \o ScaleFrom(a, k, i + 1, (a[i] * k + carry) \div 1000)

RECURSIVE MulFrom(_, _, _)
MulFrom(a, b, i) ==
    IF i > Len(a) THEN <<>>
    ELSE BigAdd(ScaleFrom(b, a[i], 1, 0), <<0>> \o MulFrom(a, b, i + 1))

\* a * b
BigMul(a, b) == BigTrim(MulFrom(a, b, 1))

\* time.Millisecond: 1e6 nanoseconds.
Millisecond == BigOf(1000000)

\* Line 193: timeout := 2500 * time.Millisecond.
timeout == BigMul(BigOf(2500), Millisecond)

\* Lines 24, 37 and 38: timeout * time.Millisecond, the product of the two
\* int64 counts of nanoseconds.
TimesMillisecond(d) == BigMul(d, Millisecond)

\* The duration the dial and the deadlines of lines 24, 37 and 38 get, with
\* the timeout of main.
DeadlineDuration == TimesMillisecond(timeout)

\* One nanosecond.
Nanosecond == BigOf(1)

\* No deadline set, no timeout given.
NoDeadline == <<-1>>

(***************************************************************************)
(* State.                                                                  *)
(*                                                                         *)
(* Per request r (one goroutine running queryHandler):                     *)
(*   req[r]       the HTTP request                                         *)
(*   pc[r]        where the handler stands                                 *)
(*   dec[r]       n, t, id, err of line 139                                *)
(*   query[r]     the message createQuery returned                         *)
(*   response[r]  the message resolve returned                             *)
(*   http[r]      what has been written to the ResponseWriter              *)
(*   target[r]    the dns.Conn the dial of line 24 assigns into, when the  *)
(*                left side was evaluated before the call (0: after it)    *)
(*   rsock[r]     the socket a ReadMsg in progress reads from              *)
(*   fail[r]      history: the stage of the handler that failed            *)
(*   used[r]      history: the sockets the calls of lines 37-44 reached    *)
(*                (0: a nil Conn field, -1: a half-written one)            *)
(* The server value and the heap:                                          *)
(*   connection   s.connection: 0 is nil, r the dns.Conn request r made    *)
(*   Conn[c]      the Conn field of dns.Conn c: 0 is nil, s the socket     *)
(*                request s dialled                                        *)
(*   sock[s]      the socket: state, the timeout its dial was given (dto), *)
(*                the time since that dial began (clock), its read and     *)
(*                write deadlines on that clock, the queries written to    *)
(*                it, the octets waiting to be read, the number of queries *)
(*                the resolver has answered                                *)
(*   lateBind     whether the build loads s.connection, on the left of     *)
(*                line 24, after net.DialTimeout has returned (the         *)
(*                language leaves the order open)                          *)
(***************************************************************************)
VARIABLES req, pc, dec, query, response, http, target, rsock, fail, used,
          connection, Conn, sock, lateBind

vars == << req, pc, dec, query, response, http, target, rsock, fail, used,
           connection, Conn, sock, lateBind >>

NoReq == [none |-> TRUE]

NoDec == [none |-> TRUE]

NoSock ==
    [state |-> "none", dto |-> NoDeadline, clock |-> <<>>, rdl |-> NoDeadline,
     wdl |-> NoDeadline, out |-> <<>>, in |-> <<>>, served |-> 0]

\* The handler has returned, or has panicked (net/http recovers the panic
\* and drops the client connection without a response).
Finished(r) == pc[r] \in {"done", "panicked"}

InitRest ==
    /\ dec = [r \in Reqs |-> NoDec]
    /\ query = [r \in Reqs |-> NoMsg]
    /\ response = [r \in Reqs |-> NoMsg]
    /\ http = [r \in Reqs |-> NoResponse]
    /\ target = [r \in Reqs |-> 0]
    /\ rsock = [r \in Reqs |-> 0]
    /\ fail = [r \in Reqs |-> "none"]
    /\ used = [r \in Reqs |-> {}]
    /\ connection = 0
    /\ Conn = [c \in Reqs |-> 0]
    /\ sock = [s \in Reqs |-> NoSock]
    /\ lateBind \in BOOLEAN

\* main: the server value holds no connection; NumReq requests arrive.
Init ==
    /\ req \in [Reqs -> FewRequests]
    /\ pc = [r \in Reqs |-> "start"]
    /\ InitRest

\* One request, any of AllRequests.
InitOne ==
    /\ \E q \in AllRequests : req = [r \in Reqs |-> IF r = 1 THEN q ELSE NoReq]
    /\ pc = [r \in Reqs |-> IF r = 1 THEN "start" ELSE "absent"]
    /\ InitRest

(***************************************************************************)
(* queryHandler, in the steps at which requests interleave.                *)
(***************************************************************************)

\* A handler that would give the query the id of the inbound message.
BeginReusingId(r) ==
    /\ pc[r] = "start"
    /\ \E d \in {parseRequest(req[r])} :
           /\ dec' = [dec EXCEPT ![r] = d]
           /\ IF d.err
              THEN /\ http' = [http EXCEPT ![r] = HttpError(400)]
                   /\ fail' = [fail EXCEPT ![r] = "decode"]
                   /\ pc' = [pc EXCEPT ![r] = "done"]
                   /\ UNCHANGED << query, connection >>
              ELSE /\ query' = [query EXCEPT ![r] = createQuery(d.n, d.t, d.id)]
                   /\ connection' = r
                   /\ pc' = [pc EXCEPT ![r] = "dial"]
                   /\ UNCHANGED << http, fail >>
    /\ UNCHANGED << req, response, target, rsock, used, Conn, sock, lateBind >>

\* Lines 139-152 and 22: parseRequest; on an error 400 and return; else
\* createQuery, and resolve -> startConnection stores a new dns.Conn in
\* s.connection.
Begin(r) ==
    /\ pc[r] = "start"
    /\ \E d \in {parseRequest(req[r])} :
           /\ dec' = [dec EXCEPT ![r] = d]
           /\ IF d.err
              THEN /\ http' = [http EXCEPT ![r] = HttpError(400)]
                   /\ fail' = [fail EXCEPT ![r] = "decode"]
                   /\ pc' = [pc EXCEPT ![r] = "done"]
                   /\ UNCHANGED << query, connection >>
              ELSE /\ \E id \in QueryIds :
                        query' = [query EXCEPT ![r] = createQuery(d.n, d.t, id)]
                   /\ connection' = r
                   /\ pc' = [pc EXCEPT ![r] = "dial"]
                   /\ UNCHANGED << http, fail >>
    /\ UNCHANGED << req, response, target, rsock, used, Conn, sock, lateBind >>

\* Line 24, the call: net.DialTimeout starts; a build that evaluates the
\* left side first loads s.connection now.
DialCall(r) ==
    /\ pc[r] = "dial"
    /\ target' = [target EXCEPT ![r] = IF lateBind THEN 0 ELSE connection]
    /\ \E d \in {DeadlineDuration} : sock' = [sock EXCEPT ![r].dto = d]
    /\ pc' = [pc EXCEPT ![r] = "dialing"]
    /\ UNCHANGED << req, dec, query, response, http, rsock, fail, used,
                    connection, Conn, lateBind >>

\* The dns.Conn whose Conn field the dial of r assigns.
DialTarget(r) ==
    IF target[r] = 0 THEN connection ELSE target[r]

\* Line 24, the return: the socket (or nil) is stored in the Conn field.
ConnAfterDial(r, ok) ==
    [Conn EXCEPT ![DialTarget(r)] = IF ok THEN r ELSE 0]

SockAfterDial(r, ok) ==
    IF ok THEN [sock EXCEPT ![r].state = "open"] ELSE sock

\* Lines 24-35 and 154-158: a failed dial is an error of resolve, so 500.
DialReturn(r) ==
    /\ pc[r] = "dialing"
    /\ \E ok \in BOOLEAN :
        /\ Conn' = ConnAfterDial(r, ok)
        /\ sock' = SockAfterDial(r, ok)
        /\ pc' = [pc EXCEPT ![r] = IF ok THEN "setrd" ELSE "done"]
        /\ http' = [http EXCEPT ![r] = IF ok THEN @ ELSE HttpError(500)]
        /\ fail' = [fail EXCEPT ![r] = IF ok THEN @ ELSE "connect"]
    /\ UNCHANGED << req, dec, query, response, target, rsock, used, connection,
                    lateBind >>

\* A method call through a nil Conn field: nil pointer dereference.
Panic(r, call) ==
    /\ pc' = [pc EXCEPT ![r] = "panicked"]
    /\ used' = [used EXCEPT ![r] = @ \cup {0}]
    /\ UNCHANGED << req, dec, query, response, http, target, rsock, fail,
                    connection, Conn, sock, lateBind >>

\* Line 37: s.connection.SetReadDeadline(time.Now().Add(s.timeout *
\* time.Millisecond)), result ignored.
SetReadDeadline(r) ==
    /\ pc[r] = "setrd"
    /\ LET s == Conn[connection]
       IN  IF s = 0 THEN Panic(r, "SetReadDeadline")
           ELSE /\ \E d \in {DeadlineDuration} :
                    sock' = [sock EXCEPT ![s].rdl = BigAdd(sock[s].clock, d)]
                /\ used' = [used EXCEPT ![r] = @ \cup {s}]
                /\ pc' = [pc EXCEPT ![r] = "setwd"]
                /\ UNCHANGED << req, dec, query, response, http, target, rsock,
                                fail, connection, Conn, lateBind >>

\* Line 38: s.connection.SetWriteDeadline(time.Now().Add(s.timeout *
\* time.Millisecond)), result ignored.
SetWriteDeadline(r) ==
    /\ pc[r] = "setwd"
    /\ LET s == Conn[connection]
       IN  IF s = 0 THEN Panic(r, "SetWriteDeadline")
           ELSE /\ \E d \in {DeadlineDuration} :
                    sock' = [sock EXCEPT ![s].wdl = BigAdd(sock[s].clock, d)]
                /\ used' = [used EXCEPT ![r] = @ \cup {s}]
                /\ pc' = [pc EXCEPT ![r] = "write"]
                /\ UNCHANGED << req, dec, query, response, http, target, rsock,
                                fail, connection, Conn, lateBind >>

\* A resolve that would go on to the read after a failed write.
WriteMsgGoesOn(r) ==
    /\ pc[r] = "write"
    /\ LET s == Conn[connection]
       IN  IF s = 0 THEN Panic(r, "WriteMsg")
           ELSE /\ used' = [used EXCEPT ![r] = @ \cup {s}]
                /\ \E written \in BOOLEAN :
                    IF written /\ Pack(query[r]).ok
                    THEN /\ sock' = [sock EXCEPT ![s].out = Append(@, query[r])]
                         /\ pc' = [pc EXCEPT ![r] = "read"]
                         /\ UNCHANGED << http, fail >>
                    ELSE /\ fail' = [fail EXCEPT ![r] = "write"]
                         /\ pc' = [pc EXCEPT ![r] = "read"]
                         /\ UNCHANGED << http, sock >>
                /\ UNCHANGED << req, dec, query, response, target, rsock,
                                connection, Conn, lateBind >>

\* Lines 40-42 and 154-158: s.connection.WriteMsg(msg) packs the query and
\* writes it; an error is an error of resolve, so 500.
WriteMsg(r) ==
    /\ pc[r] = "write"
    /\ LET s == Conn[connection]
       IN  IF s = 0 THEN Panic(r, "WriteMsg")
           ELSE /\ used' = [used EXCEPT ![r] = @ \cup {s}]
                /\ \E written \in BOOLEAN :
                    IF written /\ Pack(query[r]).ok
                    THEN /\ sock' = [sock EXCEPT ![s].out = Append(@, query[r])]
                         /\ pc' = [pc EXCEPT ![r] = "read"]
                         /\ UNCHANGED << http, fail >>
                    ELSE /\ http' = [http EXCEPT ![r] = HttpError(500)]
                         /\ fail' = [fail EXCEPT ![r] = "write"]
                         /\ pc' = [pc EXCEPT ![r] = "done"]
                         /\ UNCHANGED sock
                /\ UNCHANGED << req, dec, query, response, target, rsock,
                                connection, Conn, lateBind >>

\* A resolve that would set the read deadline anew when the read starts.
ReadCallFreshDeadline(r) ==
    /\ pc[r] = "read"
    /\ LET s == Conn[connection]
       IN  IF s = 0 THEN Panic(r, "ReadMsg")
           ELSE /\ rsock' = [rsock EXCEPT ![r] = s]
                /\ used' = [used EXCEPT ![r] = @ \cup {s}]
                /\ pc' = [pc EXCEPT ![r] = "reading"]
                /\ \E d \in {DeadlineDuration} :
                    sock' = [sock EXCEPT ![s].rdl = BigAdd(sock[s].clock, d)]
                /\ UNCHANGED << req, dec, query, response, http, target, fail,
                                connection, Conn, lateBind >>

\* Line 44, the call: s.connection.ReadMsg() starts reading from the socket
\* s.connection holds now.
ReadCall(r) ==
    /\ pc[r] = "read"
    /\ LET s == Conn[connection]
       IN  IF s = 0 THEN Panic(r, "ReadMsg")
           ELSE /\ rsock' = [rsock EXCEPT ![r] = s]
                /\ used' = [used EXCEPT ![r] = @ \cup {s}]
                /\ pc' = [pc EXCEPT ![r] = "reading"]
                /\ UNCHANGED << req, dec, query, response, http, target, fail,
                                connection, Conn, sock, lateBind >>

\* A handler that would go on to write an answer after resolve failed.
ResolveFailedAnswers(r, stage) ==
    /\ http' = [http EXCEPT ![r] = HttpAnswer(<<>>)]
    /\ fail' = [fail EXCEPT ![r] = stage]
    /\ pc' = [pc EXCEPT ![r] = "done"]

\* Lines 154-158: resolve returned an error.
ResolveFailed(r, stage) ==
    /\ http' = [http EXCEPT ![r] = HttpError(500)]
    /\ fail' = [fail EXCEPT ![r] = stage]
    /\ pc' = [pc EXCEPT ![r] = "done"]

\* Lines 44-49 and 153-176: ReadMsg returns the next message on the socket.
\* One that does not unpack is an error of resolve. Otherwise the handler
\* packs it and answers; Pack fails when the message cannot be packed, which
\* for the rdata (raw octets here) is the library's own decision.
ReadMessage(r) ==
    /\ pc[r] = "reading"
    /\ sock[rsock[r]].in # <<>>
    /\ sock' = [sock EXCEPT ![rsock[r]].in = Tail(@)]
    /\ \E u \in {Unpack(Head(sock[rsock[r]].in))} :
           IF ~u.ok
           THEN ResolveFailed(r, "read") /\ UNCHANGED response
           ELSE /\ response' = [response EXCEPT ![r] = u.msg]
                /\ pc' = [pc EXCEPT ![r] = "done"]
                /\ \E rdataOk \in BOOLEAN, packed \in {Pack(u.msg)} :
                    IF rdataOk /\ packed.ok
                    THEN /\ http' = [http EXCEPT ![r] = HttpAnswer(packed.bytes)]
                         /\ UNCHANGED fail
                    ELSE /\ http' = [http EXCEPT ![r] = HttpError(500)]
                         /\ fail' = [fail EXCEPT ![r] = "pack"]
    /\ UNCHANGED << req, dec, query, target, rsock, used, connection, Conn, lateBind >>

\* Lines 44-47: ReadMsg blocks until the read deadline of the socket.
ReadTimeout(r) ==
    /\ pc[r] = "reading"
    /\ sock[rsock[r]].rdl # NoDeadline
    /\ \E s \in {rsock[r]} :
        sock' = [sock EXCEPT ![s].clock = IF BigLess(@, sock[s].rdl) THEN sock[s].rdl ELSE @]
    /\ ResolveFailed(r, "read")
    /\ UNCHANGED << req, dec, query, response, target, rsock, used, connection,
                    Conn, lateBind >>

\* Two ReadMsg calls on one socket: each reads a length and then a body, so
\* they can take each other's octets; the caller gets an error.
ReadGarbled(r) ==
    /\ pc[r] = "reading"
    /\ sock[rsock[r]].in # <<>>
    /\ \E o \in Reqs \ {r} : pc[o] = "reading" /\ rsock[o] = rsock[r]
    /\ sock' = [sock EXCEPT ![rsock[r]].in = Tail(@)]
    /\ ResolveFailed(r, "read")
    /\ UNCHANGED << req, dec, query, response, target, rsock, used, connection,
                    Conn, lateBind >>

\* A call of r on s.connection at the moment the dial of d stores into the
\* same dns.Conn: the Conn field is an interface value of two words, and
\* the unsynchronized read can see the type word of the socket with a nil
\* data word. The call then runs on a nil *net.TCPConn and returns EINVAL:
\* the deadline calls ignore it, WriteMsg and ReadMsg return it.
TornCall(r, d) ==
    /\ r # d
    /\ pc[d] = "dialing"
    /\ DialTarget(d) = connection
    /\ pc[r] \in {"setrd", "setwd", "write", "read"}
    /\ \E ok \in BOOLEAN :
        /\ ok = (Conn[connection] = 0)
        /\ Conn' = ConnAfterDial(d, ok)
        /\ sock' = SockAfterDial(d, ok)
        /\ pc' = [pc EXCEPT
                    ![d] = IF ok THEN "setrd" ELSE "done",
                    ![r] = CASE pc[r] = "setrd" -> "setwd"
                             [] pc[r] = "setwd" -> "write"
                             [] OTHER -> "done"]
        /\ http' = [http EXCEPT
                    ![d] = IF ok THEN @ ELSE HttpError(500),
                    ![r] = IF pc[r] \in {"write", "read"} THEN HttpError(500) ELSE @]
        /\ fail' = [fail EXCEPT
                    ![d] = IF ok THEN @ ELSE "connect",
                    ![r] = IF pc[r] \in {"write", "read"} THEN pc[r] ELSE @]
    /\ used' = [used EXCEPT ![r] = @ \cup {-1}]
    /\ UNCHANGED << req, dec, query, response, target, rsock, connection, lateBind >>

(***************************************************************************)
(* The environment: the upstream resolver and the Go runtime.              *)
(***************************************************************************)

\* What the resolver may send for a query: an answer with one record, or
\* octets that are no message.
Replies(q) ==
    { Pack([q EXCEPT !.Response = TRUE, !.RecursionAvailable = TRUE,
                     !.Answer = << [Name |-> q.Question[1].Name,
                                    Rrtype |-> q.Question[1].Qtype,
                                    Class |-> 1, Ttl |-> 60,
                                    Rdata |-> <<192, 0, 2, 1>>] >>]).bytes,
      <<0, 0, 0>> }

\* The resolver answers the next query written to a socket.
UpstreamReply(s) ==
    /\ sock[s].state = "open"
    /\ sock[s].served < Len(sock[s].out)
    /\ \E b \in Replies(sock[s].out[sock[s].served + 1]) :
        sock' = [sock EXCEPT ![s].in = Append(@, b), ![s].served = @ + 1]
    /\ UNCHANGED << req, pc, dec, query, response, http, target, rsock, fail, used,
                    connection, Conn, lateBind >>

\* The dial of line 24 or the write of line 40 of r blocks until just before
\* its timeout or deadline.
Elapse(r) ==
    /\ pc[r] \in {"dialing", "write"}
    /\ pc[r] = "write" => Conn[connection] = r
    /\ \E limit \in {IF pc[r] = "dialing" THEN sock[r].dto ELSE sock[r].wdl} :
        /\ limit # NoDeadline
        /\ BigLess(BigAdd(sock[r].clock, Nanosecond), limit)
        /\ sock' = [sock EXCEPT ![r].clock = BigSub(limit, Nanosecond)]
    /\ UNCHANGED << req, pc, dec, query, response, http, target, rsock, fail, used,
                    connection, Conn, lateBind >>

\* The socket s is still referenced: from a dns.Conn that s.connection or a
\* pending dial holds, or by a ReadMsg in progress.
Referenced(s) ==
    \/ \E c \in Reqs :
        /\ Conn[c] = s
        /\ \/ connection = c
           \/ \E r \in Reqs : pc[r] = "dialing" /\ target[r] = c
    \/ \E r \in Reqs : pc[r] = "reading" /\ rsock[r] = s

\* No line of odoh.go closes a connection. The runtime closes the file
\* descriptor of a socket when the garbage collector finds it unreferenced.
Finalize(s) ==
    /\ sock[s].state = "open"
    /\ ~Referenced(s)
    /\ sock' = [sock EXCEPT ![s].state = "closed"]
    /\ UNCHANGED << req, pc, dec, query, response, http, target, rsock, fail, used,
                    connection, Conn, lateBind >>

(***************************************************************************)
(* Specifications.                                                         *)
(***************************************************************************)

\* The steps of one handler on its own.
Handler(r) ==
    \/ Begin(r)
    \/ DialCall(r)
    \/ DialReturn(r)
    \/ SetReadDeadline(r)
    \/ SetWriteDeadline(r)
    \/ WriteMsg(r)
    \/ ReadCall(r)
    \/ ReadMessage(r)
    \/ ReadTimeout(r)

\* The steps that take two handlers.
Shared(r) ==
    \/ ReadGarbled(r)
    \/ \E d \in Reqs : TornCall(r, d)

Next ==
    \/ \E r \in Reqs : Handler(r) \/ Shared(r)
    \/ \E s \in Reqs : UpstreamReply(s) \/ Finalize(s)

\* NumReq concurrent requests on one server value.
Spec == Init /\ [][Next]_vars

\* Requests of different methods arrive together, the GET as request 1.
InitMixed ==
    /\ Init
    /\ req[1].Method = "GET"
    /\ \A r \in Reqs \ {1} : req[r].Method = "POST"

\* The scheduler runs every goroutine that can take a step. Nothing is
\* assumed of the resolver.
FairSpec ==
    /\ InitMixed
    /\ [][Next]_vars
    /\ \A r \in Reqs : WF_vars(Handler(r) \/ Shared(r))

\* With one request the socket stays referenced from s.connection. The
\* time its blocking calls take is followed.
NextOne ==
    \/ \E r \in Reqs : Handler(r) \/ Elapse(r)
    \/ \E s \in Reqs : UpstreamReply(s)

\* One request on a fresh server value.
SpecOne == InitOne /\ [][NextOne]_vars

\* createQuery on its own: line 150 applied to any name and type string.
\* "", ".", "a", "a.", "a\." (an escaped dot), "a\\.", "a.b" and "a.b."
SynthNames ==
    { <<>>, <<46>>, <<97>>, <<97, 46>>, <<97, 92, 46>>, <<97, 92, 92, 46>>,
      <<97, 46, 98>>, <<97, 46, 98, 46>> }

SynthTypes == {"", "A", "AAAA", "MX", "a", "TYPE65280"}

InitSynth ==
    /\ req = [r \in Reqs |-> NoReq]
    /\ \E n \in SynthNames, t \in SynthTypes, i \in InIds :
        dec = [r \in Reqs |-> IF r = 1 THEN [n |-> n, t |-> t, id |-> i, err |-> FALSE]
                                       ELSE NoDec]
    /\ pc = [r \in Reqs |-> IF r = 1 THEN "synth" ELSE "absent"]
    /\ query = [r \in Reqs |-> NoMsg]
    /\ response = [r \in Reqs |-> NoMsg]
    /\ http = [r \in Reqs |-> NoResponse]
    /\ target = [r \in Reqs |-> 0]
    /\ rsock = [r \in Reqs |-> 0]
    /\ fail = [r \in Reqs |-> "none"]
    /\ used = [r \in Reqs |-> {}]
    /\ connection = 0
    /\ Conn = [c \in Reqs |-> 0]
    /\ sock = [s \in Reqs |-> NoSock]
    /\ lateBind = FALSE

\* Line 150: query := createQuery(n, t).
Synthesize(r) ==
    /\ pc[r] = "synth"
    /\ \E id \in QueryIds :
        query' = [query EXCEPT ![r] = createQuery(dec[r].n, dec[r].t, id)]
    /\ pc' = [pc EXCEPT ![r] = "synthesized"]
    /\ UNCHANGED << req, dec, response, http, target, rsock, fail, used,
                    connection, Conn, sock, lateBind >>

NextSynth == \E r \in Reqs : Synthesize(r)

SpecSynth == InitSynth /\ [][NextSynth]_vars

(***************************************************************************)
(* Properties.                                                             *)
(***************************************************************************)

\* The handler of r has run parseRequest.
Handled(r) == pc[r] \notin {"absent", "start"}

\* The wire message a request carries: the decoded `dns` parameter of a GET
\* that has one, the body of a POST of the DNS media type. [ok, bytes].
Carried(q) ==
    CASE q.Method = "GET" /\ q.Dns # <<>> -> B64Decode(q.Dns)
      [] q.Method = "POST" /\ q.ContentType = "application/dns-message" /\ ~q.ReadErr ->
            [ok |-> TRUE, bytes |-> q.Body]
      [] OTHER -> [ok |-> FALSE, bytes |-> <<>>]

\* The request carries a message that unpacks, with n questions, n in counts.
CarriesQuestions(q, counts) ==
    \E c \in {Carried(q)} :
        /\ c.ok
        /\ \E u \in {Unpack(c.bytes)} : u.ok /\ Len(u.msg.Question) \in counts

\* The request fails before the question count is looked at.
DecodeStageFailure(q) ==
    \E c \in {Carried(q)} : ~c.ok \/ ~Unpack(c.bytes).ok

\* The request is the GET or the POST of a message with one question.
PlainOneQuestion(q) ==
    q.Src # NoMsg /\ Len(q.Src.Question) = 1

\* No query was synthesized for r and no connection made or used by it.
NothingUpstream(r) ==
    /\ query[r] = NoMsg
    /\ connection # r
    /\ sock[r].state = "none"
    /\ used[r] = {}

\* C1: a request, GET or POST, whose message unpacks but has 0 or at least 2
\* questions is answered 400, and no query is synthesized or sent upstream.
C1_QuestionCountRejected ==
    \A r \in Reqs :
        Handled(r) /\ CarriesQuestions(req[r], {0, 2, 3})
        => pc[r] = "done" /\ http[r].status = 400 /\ NothingUpstream(r)

C3_TransportFailureIs500 ==
    \A r \in Reqs :
        /\ pc[r] = "done" /\ Handled(r) /\ ~dec[r].err /\ response[r] = NoMsg
           => http[r] = HttpError(500) /\ fail[r] \in {"connect", "write", "read"}
        /\ fail[r] \in {"connect", "write", "read", "pack"}
           => /\ pc[r] = "done"
              /\ http[r].status = 500
              /\ http[r].ctype # "application/dns-message"
              /\ http[r].body = StatusLine(500)

\* A read that failed after the query was written ended with 500.
C3_Witness ==
    \E r \in Reqs :
        /\ pc[r] = "done"
        /\ fail[r] = "read"
        /\ http[r].status = 500
        /\ \E s \in Reqs : sock[s].out # <<>>

\* C4: concurrent requests share no mutable state: each request sets its
\* deadlines on, writes to and reads from the connection it opened itself.
C4_OwnConnectionOnly ==
    \A r \in Reqs : used[r] \subseteq {r}

\* C5: when the handling of a request has finished, no connection that the
\* request opened remains open.
C5_ClosedWhenFinished ==
    \A r \in Reqs : Finished(r) => sock[r].state # "open"

\* C6: when decoding, the round trip and packing succeed, the response has
\* the DNS media type and its body is exactly the packed form of the
\* message read from the resolver: unpacked again it is that message, with
\* its answer records.
C6_AnswerRelayed ==
    \A r \in Reqs :
        /\ pc[r] = "done" /\ response[r] # NoMsg /\ fail[r] # "pack"
           => http[r].status = 200
        /\ http[r].status = 200
           => /\ response[r] # NoMsg
              /\ http[r].ctype = "application/dns-message"
              /\ http[r].body = Pack(response[r]).bytes
              /\ Unpack(http[r].body) = [ok |-> TRUE, msg |-> response[r]]

\* A 200 whose body carries the resolver's answer record.
C6_Witness ==
    \E r \in Reqs :
        /\ http[r].status = 200
        /\ Len(response[r].Answer) = 1
        /\ Len(Unpack(http[r].body).msg.Answer) = 1

\* The same message sent by the other method: the POST of the message of a
\* GET, the GET of the message of a POST.
TwinOf(q) ==
    IF q.Method = "GET"
    THEN POSTReq("application/dns-message", Wire(q.Src), q.Src)
    ELSE GETReq(B64Encode(Wire(q.Src)), q.Src)

\* C7: a message with one question sent by GET and sent by POST decodes to
\* the same (name, type) and gives outgoing queries with the same question
\* (name, type, class); only the ids may differ.
C7_MethodEquivalence ==
    \A r \in Reqs :
        Handled(r) /\ PlainOneQuestion(req[r])
        => \E o \in {parseRequest(TwinOf(req[r]))} :
            /\ ~o.err /\ ~dec[r].err
            /\ o.n = dec[r].n
            /\ o.t = dec[r].t
            /\ \A id \in QueryIds : createQuery(o.n, o.t, id).Question = query[r].Question

\* A GET whose encoding uses the two URL-safe characters was decoded.
C7_Witness ==
    \E r \in Reqs :
        /\ Handled(r) /\ PlainOneQuestion(req[r])
        /\ req[r].Method = "GET"
        /\ \E i \in 1..Len(req[r].Dns) : req[r].Dns[i] \in {45, 95}
        /\ query[r] # NoMsg

\* The mnemonics of the record types of the inputs.
TypeName(t) ==
    CASE t = 1 -> "A" [] t = 28 -> "AAAA" [] t = 15 -> "MX" [] t = 16 -> "TXT"
      [] t = 65280 -> "TYPE65280"

\* C8: a valid query message packed, encoded as the dns parameter of a GET
\* and decoded by parseRequestFromGET comes back without error as the same
\* question: the same name and the mnemonic of the same type.
C8_GetRoundTrip ==
    \A r \in Reqs :
        Handled(r) /\ PlainOneQuestion(req[r]) /\ req[r].Method = "GET"
        => /\ ~dec[r].err
           /\ dec[r].n = req[r].Src.Question[1].Name
           /\ dec[r].t = TypeName(req[r].Src.Question[1].Qtype)
           /\ dec[r].id = req[r].Src.Id

\* The name "a\.b." of type TXT came back from a GET.
C8_Witness ==
    \E r \in Reqs :
        /\ Handled(r) /\ req[r].Method = "GET" /\ PlainOneQuestion(req[r])
        /\ dec[r].n = <<97, 92, 46, 98, 46>>
        /\ dec[r].t = "TXT"

\* C9: the query sent upstream has type A exactly when the decoded type
\* string is "A", and AAAA for every other string; no type is passed
\* through and none is rejected.
C9_TypeAOrAAAA ==
    \A r \in Reqs :
        Handled(r) /\ ~dec[r].err
        => /\ query[r] # NoMsg
           /\ Len(query[r].Question) = 1
           /\ query[r].Question[1].Qtype = (IF dec[r].t = "A" THEN 1 ELSE 28)
           /\ \A s \in Reqs : \A i \in 1..Len(sock[s].out) :
                sock[s].out[i].Question[1].Qtype \in {1, 28}

\* An MX question went upstream as AAAA.
C9_Witness ==
    \E r \in Reqs :
        /\ dec[r] # NoDec
        /\ dec[r].t = "MX"
        /\ \E s \in Reqs : \E i \in 1..Len(sock[s].out) :
            sock[s].out[i] = query[r] /\ query[r].Question[1].Qtype = 28

\* C10: every request eventually completes with an HTTP response (200, 400
\* or 500): no handler blocks for ever or ends without one.
C10_EveryRequestAnswered ==
    \A r \in Reqs : <>(pc[r] = "done" /\ http[r].status \in {200, 400, 500})

\* C11 as stated: the body of a response is a complete wire-format answer
\* (status 200) or is empty with status 400 or 500; an error response never
\* carries body octets.
C11_ErrorBodyEmpty ==
    \A r \in Reqs :
        /\ http[r].status \in {400, 500} => http[r].body = <<>>
        /\ http[r].status = 200
           => \E u \in {Unpack(http[r].body)} : u.ok /\ Pack(u.msg).bytes = http[r].body

\* C11, amended: what a request gets is nothing at all, or an error status
\* with exactly the status text and a newline as text/plain, or 200 with
\* the complete packed message; never a part of a message, and never
\* octets of the resolver under an error status.
C11_NoPartialResponse ==
    \A r \in Reqs :
        \/ http[r] = NoResponse
        \/ /\ http[r].status \in {400, 500}
           /\ http[r].ctype = "text/plain; charset=utf-8"
           /\ http[r].body = StatusLine(http[r].status)
        \/ /\ http[r].status = 200
           /\ response[r] # NoMsg
           /\ \E u \in {Unpack(http[r].body)} :
                u.ok /\ u.msg = response[r] /\ Pack(u.msg).bytes = http[r].body

\* A 400 went out with the twelve octets of "Bad Request\n".
C11_Witness ==
    \E r \in Reqs :
        /\ http[r].status = 400
        /\ Len(http[r].body) = 12
        /\ http[r].body = StatusLine(400)

\* The order of the steps of one handler.
Rank(p) ==
    CASE p \in {"absent", "start"} -> 0
      [] p = "dial" -> 1
      [] p = "dialing" -> 2
      [] p = "setrd" -> 3
      [] p = "setwd" -> 4
      [] p = "write" -> 5
      [] p = "read" -> 6
      [] p = "reading" -> 7
      [] OTHER -> 8

\* C12: within one request the connection is opened once, then the query is
\* written at most once, then a response is read at most once, in this
\* order; a failed step is not retried and no later step follows it.
C12_OneAttemptInOrder ==
    [][\A r \in Reqs :
        \* the handler only moves forward
        /\ pc'[r] # pc[r] => Rank(pc'[r]) > Rank(pc[r])
        \* one dial, out of "dialing"
        /\ sock'[r].state # sock[r].state
           => sock[r].state = "none" /\ sock'[r].state = "open" /\ pc[r] = "dialing"
        \* one write, after the deadlines and before the read
        /\ sock'[r].out # sock[r].out
           => /\ sock[r].out = <<>>
              /\ sock'[r].out = <<query[r]>>
              /\ pc[r] = "write" /\ pc'[r] = "read"
        \* one read, of a message or of nothing
        /\ Len(sock'[r].in) < Len(sock[r].in)
           => pc[r] = "reading" /\ pc'[r] = "done" /\ Len(sock'[r].in) = Len(sock[r].in) - 1
        \* nothing after a failure
        /\ fail'[r] # "none"
           => /\ pc'[r] = "done"
              /\ sock'[r].out = sock[r].out
              /\ (fail[r] # "none" => Len(sock'[r].in) >= Len(sock[r].in))
    ]_vars

\* A write failed on an open connection: nothing was written, nothing read.
C12_Witness ==
    \E r \in Reqs :
        /\ pc[r] = "done"
        /\ fail[r] = "write"
        /\ sock[r].state = "open"
        /\ sock[r].out = <<>>
        /\ rsock[r] = 0

\* C13: under any interleaving, the message a request reads and returns is
\* the resolver's reply to the query this request wrote: same id, same
\* question name and type.
C13_OwnReply ==
    \A r \in Reqs :
        response[r] # NoMsg
        => /\ response[r].Id = query[r].Id
           /\ response[r].Question = query[r].Question

\* C14: every deadline call, write and read of resolve reaches a connection
\* whose dial has succeeded, never a nil or half-stored Conn, so no handler
\* ends without a status.
C14_DialledConnectionOnly ==
    \A r \in Reqs :
        /\ used[r] \cap {0, -1} = {}
        /\ \A s \in used[r] \cap Reqs : sock[s].state # "none"
        /\ pc[r] # "panicked"
        /\ pc[r] = "done" => http[r].status \in {200, 400, 500}

\* The names of SynthNames that are fully qualified: ".", "a.", "a\\." and
\* "a.b." ("a\." ends with an escaped dot, which belongs to the label).
FullyQualifiedNames ==
    { <<46>>, <<97, 46>>, <<97, 92, 92, 46>>, <<97, 46, 98, 46>> }

\* C15: for every name and type string, the empty ones included,
\* createQuery returns a standard query with response code success,
\* recursion desired, one question of class Internet whose name ends with
\* the separator; a fully qualified name is left as it is, any other gets
\* the separator appended.
C15_QueryShape ==
    \A r \in Reqs :
        pc[r] = "synthesized"
        => /\ query[r].Opcode = 0
           /\ query[r].Rcode = 0
           /\ query[r].RecursionDesired
           /\ ~query[r].Response
           /\ query[r].Answer = <<>>
           /\ Len(query[r].Question) = 1
           /\ query[r].Question[1].Qclass = 1
           /\ query[r].Question[1].Qtype \in {1, 28}
           /\ \E name \in {query[r].Question[1].Name} :
                /\ name # <<>>
                /\ name[Len(name)] = 46
                /\ name = IF dec[r].n \in FullyQualifiedNames
                          THEN dec[r].n
                          ELSE dec[r].n \o <<46>>

\* The empty name with the empty type became AAAA? "."
C15_Witness ==
    \E r \in Reqs :
        /\ pc[r] = "synthesized"
        /\ dec[r].n = <<>> /\ dec[r].t = ""
        /\ query[r].Question = << [Name |-> <<46>>, Qtype |-> 28, Qclass |-> 1] >>

\* The request q with the transaction id of its message replaced.
WithInboundId(q, i) ==
    IF q.Method = "GET"
    THEN GETReq(B64Encode(Wire([q.Src EXCEPT !.Id = i])), [q.Src EXCEPT !.Id = i])
    ELSE POSTReq("application/dns-message", Wire([q.Src EXCEPT !.Id = i]),
                 [q.Src EXCEPT !.Id = i])

\* The queries createQuery can return for a decoded request.
PossibleQueries(d) ==
    { createQuery(d.n, d.t, id) : id \in QueryIds }

\* C16: the outgoing query is made from the decoded name and type and a
\* generated id only: a request and the same request with another inbound
\* id have the same possible outgoing queries, the query sent is one of
\* them, and nothing but these queries is written upstream.
C16_InboundIdUnused ==
    \A r \in Reqs :
        Handled(r) /\ PlainOneQuestion(req[r])
        => /\ dec[r].id = req[r].Src.Id
           /\ \A i \in InIds :
                \E o \in {parseRequest(WithInboundId(req[r], i))} :
                    /\ o.id = i
                    /\ PossibleQueries(o) = PossibleQueries(dec[r])
                    /\ query[r] \in PossibleQueries(o)
           /\ \A k \in 1..Len(sock[r].out) : sock[r].out[k] \in PossibleQueries(dec[r])

\* A request with inbound id 65535 had its query written upstream.
C16_Witness ==
    \E r \in Reqs :
        /\ dec[r] # NoDec
        /\ dec[r].id = 65535
        /\ sock[r].out = <<query[r]>>
        /\ query[r].Id \in QueryIds

\* C17: once the handling of every request has completed, with any outcome,
\* the server value is as it was before: it holds no connection.
C17_NoStateSurvives ==
    (\A r \in Reqs : pc[r] \in {"absent", "done", "panicked"})
    => /\ connection = 0
       /\ \A c \in Reqs : Conn[c] = 0

\* C18: the timeout given to the dial and the durations added to the clock
\* for the read and the write deadline are each the configured timeout of
\* 2500 milliseconds, so a dial that fails has failed within that timeout.
C18_BoundsAreTheTimeout ==
    \A r \in Reqs :
        /\ pc[r] = "dialing" => sock[r].dto = timeout
        /\ pc[r] = "setwd" => sock[r].rdl = BigAdd(sock[r].clock, timeout)
        /\ pc[r] = "write"
           => sock[r].wdl = sock[r].rdl /\ BigLeq(sock[r].wdl, BigAdd(sock[r].clock, timeout))
        /\ fail[r] = "connect" => BigLeq(sock[r].clock, timeout)

\* C19 as stated: the read has a full timeout of its own after the write:
\* when the read starts, whatever time the write has used, the read
\* deadline is still the whole duration away.
C19_ReadHasItsOwnTimeout ==
    \A r \in Reqs :
        pc[r] = "reading" /\ sock[rsock[r]].rdl # NoDeadline
        => BigSub(sock[rsock[r]].rdl, sock[rsock[r]].clock) = DeadlineDuration

\* C19, amended: both deadlines are set once, right after the connection is
\* made, to the same duration; the read deadline is not set again when the
\* read starts. Write and read together take no longer than that one
\* duration, and resolve no longer than the dial timeout and that duration
\* together: twice, not three times, the duration.
C19_OneDeadlineForWriteAndRead ==
    \A r \in Reqs :
        /\ sock[r].rdl # NoDeadline /\ sock[r].wdl # NoDeadline
           => sock[r].rdl = sock[r].wdl
        /\ sock[r].rdl # NoDeadline
           => /\ BigLeq(sock[r].clock, sock[r].rdl)
              /\ BigLess(sock[r].rdl, BigAdd(sock[r].dto, DeadlineDuration))
        /\ BigLess(sock[r].clock, BigAdd(DeadlineDuration, DeadlineDuration))
        /\ pc[r] = "reading"
           => BigLeq(BigSub(sock[r].rdl, sock[r].clock), DeadlineDuration)

\* A read timed out one nanosecond after a write that had used all but a
\* nanosecond of the duration, after a dial that had done the same.
C19_Witness ==
    \E r \in Reqs :
        /\ pc[r] = "done"
        /\ fail[r] = "read"
        /\ sock[r].out # <<>>
        /\ sock[r].clock = sock[r].rdl
        /\ sock[r].clock = BigSub(BigAdd(DeadlineDuration, DeadlineDuration), Nanosecond)

====
